---- MODULE Spec2Model ----
(***************************************************************************)
(* Model of termgame's per-tick pipeline (src/termgame.py): the layered    *)
(* CollisionMap, TermGame.__move_objects (request application, rigidbody   *)
(* resolution, position reconciliation, notification dispatch), the       *)
(* per-frame rebuild of the map in __draw_game_objects, and                *)
(* TermGame.pathfind.                                                      *)
(***************************************************************************)
EXTENDS Integers, Sequences, FiniteSets, TLC

\* ---------------------------------------------------------------- bounds
MaxOps == 5           \* spawn, move and destroy calls in one run of Spec
MaxProfileOps == 3    \* the same, in one run of SpecProfiles
MaxTicks == 2         \* move-resolution phases in one run
LoopFuel == 8         \* iterations granted to the resolution loop
MaxRow == 2           \* max_y of the pathfinding grid
MaxCol == 2           \* max_x of the pathfinding grid
PathFuel == 40        \* iterations granted to each loop of pathfind

\* ------------------------------------------------------------ basic values
\* Python's None for a position, for a layer argument and for a collision.
NoPos == <<>>
NoLayer == -1
NoTime == -1
NoCollision == [layer |-> NoLayer, position |-> NoPos, colliders |-> <<>>]

\* __get_input returns "" when no key is waiting.
NoKey == ""
\* self.frame_delay, counted in clock steps of the model (half a delay each).
frame_delay == 2
\* The terminal and clock a run meets: the keys __get_input can return and
\* the time that can pass between two readings of time_ns() in __loop.
Quiet == [keys |-> {NoKey}, delays |-> {1}]
Busy == [keys |-> {NoKey, "q", "r", "x"}, delays |-> {1, 3}]

\* The grid positions entities are spawned at and moved to.
Cells == {<<0, 0>>, <<0, 1>>}
SpawnPositions == Cells \cup {NoPos}

\* gameobject.Collision: the fields the pipeline reads.
Collision(c, r, l) == [collider |-> c, rigidbody |-> r, layer |-> l]
\* The profiles of the loaded classes: the dataclass default, a rigidbody
\* collider on layer 0 and on layer 1, a collider that is no rigidbody, and a
\* rigidbody that is no collider.
DefaultProfile == Collision(FALSE, FALSE, 0)
PlainRigidbody == Collision(TRUE, TRUE, 0)
Profiles == {DefaultProfile, PlainRigidbody, Collision(TRUE, TRUE, 1),
             Collision(TRUE, FALSE, 0), Collision(FALSE, TRUE, 0)}

VARIABLES
    objs,               \* every GameObject ever created: id -> fields
    active_objects,     \* TermGame.active_objects (its keys)
    next_game_obj_id,   \* TermGame.next_game_obj_id
    collision_map,      \* CollisionMap.map, in dict iteration order
    move_requests,      \* TermGame.move_requests
    phase,              \* position of __loop: "input", "update", "draw", "exited"
    tick,               \* completed move-resolution phases
    resources,          \* TermGame.resources: the profiles of its classes
    ops,                \* spawn, move and destroy calls so far
    last,               \* record of the last move-resolution phase
    now,                \* TermGame.now
    game_stopped,       \* TermGame.game_stopped
    terminal,           \* the keys and delays the run can meet
    input,              \* last return of __get_input and who called it
    drawn,              \* record of the last call of __draw_frame
    path_query,         \* pathfind's arguments: start and target position
    path_result,        \* what the call of pathfind produced
    path_pc,            \* "idle", "called" or "done"
    rb_call             \* record of a call of get_rb_collisions

gvars == <<objs, active_objects, next_game_obj_id, collision_map,
           move_requests, phase, tick, resources, ops, last,
           now, game_stopped, terminal, input, drawn>>
pvars == <<path_query, path_result, path_pc, rb_call>>
vars == <<gvars, pvars>>

\* ------------------------------------------------------------ sequences
RECURSIVE RemoveFirst(_, _)
RemoveFirst(s, e) ==
    IF s = <<>> THEN <<>>
    ELSE IF Head(s) = e THEN Tail(s)
    ELSE <<Head(s)>> \o RemoveFirst(Tail(s), e)

InSeq(s, e) == \E i \in 1..Len(s) : s[i] = e

Count(s, e) == Cardinality({i \in 1..Len(s) : s[i] = e})

InsertAfter(s, i, e) == SubSeq(s, 1, i) \o <<e>> \o SubSeq(s, i + 1, Len(s))

\* ------------------------------------------------------------ CollisionMap
\* The map is a dict of dicts of lists.  Iterating it visits the layers in
\* insertion order and, inside a layer, the positions in insertion order; the
\* model keeps the buckets in exactly that order.
HasLayer(m, l) == \E i \in 1..Len(m) : m[i].layer = l

HasBucket(m, l, p) == \E i \in 1..Len(m) : m[i].layer = l /\ m[i].position = p

BucketIdx(m, l, p) == CHOOSE i \in 1..Len(m) : m[i].layer = l /\ m[i].position = p

LastOfLayer(m, l) ==
    CHOOSE i \in 1..Len(m) :
        m[i].layer = l /\ \A j \in (i + 1)..Len(m) : m[j].layer # l

\* self.map[layer][position] on a defaultdict: creates the bucket when absent.
Touch(m, l, p) ==
    IF HasBucket(m, l, p) THEN m
    ELSE LET b == [layer |-> l, position |-> p, objs |-> <<>>]
         IN IF HasLayer(m, l) THEN InsertAfter(m, LastOfLayer(m, l), b)
            ELSE Append(m, b)

add_obj(m, l, p, g) ==
    LET t == Touch(m, l, p)
        i == BucketIdx(t, l, p)
    IN [t EXCEPT ![i].objs = Append(@, g)]

remove_obj(m, l, p, g) ==
    LET t == Touch(m, l, p)
        i == BucketIdx(t, l, p)
    IN IF InSeq(t[i].objs, g) THEN [t EXCEPT ![i].objs = RemoveFirst(@, g)]
       ELSE t

detect_collisions(m) ==
    LET crowded(b) == Len(b.objs) > 1
        asCollision(b) == [layer |-> b.layer, position |-> b.position,
                           colliders |-> b.objs]
        hits == SelectSeq(m, crowded)
    IN [i \in 1..Len(hits) |-> asCollision(hits[i])]

rigidbody_colliders(o, c) ==
    LET rigid(g) == o[g].rigidbody
    IN SelectSeq(c.colliders, rigid)

\* Python truthiness of the optional arguments: None and 0 are both false.
LayerGiven(layer) == layer # NoLayer /\ layer # 0
PositionGiven(position) == position # NoPos

\* get_rb_collisions: with single it returns the first rigidbody collision;
\* the function has no other return statement, so every other path yields None.
get_rb_collisions(m, o, layer, position, single) ==
    LET passes(c) ==
            /\ ~(LayerGiven(layer) /\ c.layer # layer)
            /\ ~(PositionGiven(position) /\ c.position # position)
            /\ Len(rigidbody_colliders(o, c)) > 1
        hits == SelectSeq(detect_collisions(m), passes)
    IN IF single /\ hits # <<>>
       THEN [layer |-> Head(hits).layer, position |-> Head(hits).position,
             colliders |-> rigidbody_colliders(o, Head(hits))]
       ELSE NoCollision

\* The values the optional arguments layer and position can take.
LayerArgs == {NoLayer, 0, 1}
PositionArgs == {NoPos} \cup Cells

NoCall == [made |-> FALSE, layer |-> NoLayer, position |-> NoPos,
           single |-> FALSE, map |-> <<>>, result |-> NoCollision]

\* --------------------------------------------------------- __move_objects
\* A plausible slip: the entity is filed under the default layer 0.
ApplyRequest_DefaultLayer(m, o, r) ==
    add_obj(remove_obj(m, o[r.obj].layer, o[r.obj].position, r.obj),
            0, r.position, r.obj)

\* One popped request: the entity leaves the bucket of its recorded position
\* and enters the requested bucket of its layer; its position field stays.
ApplyRequest(m, o, r) ==
    add_obj(remove_obj(m, o[r.obj].layer, o[r.obj].position, r.obj),
            o[r.obj].layer, r.position, r.obj)

\* A plausible slip: the requests are applied in the order they were queued.
RECURSIVE ApplyRequests_FIFO(_, _, _)
ApplyRequests_FIFO(m, o, reqs) ==
    IF reqs = <<>> THEN m
    ELSE ApplyRequests_FIFO(ApplyRequest(m, o, Head(reqs)), o, Tail(reqs))

\* while self.move_requests: pop() takes the request queued last.
RECURSIVE ApplyRequests(_, _, _)
ApplyRequests(m, o, reqs) ==
    IF reqs = <<>> THEN m
    ELSE ApplyRequests(ApplyRequest(m, o, reqs[Len(reqs)]), o,
                       SubSeq(reqs, 1, Len(reqs) - 1))

\* rigidbody_collisions[id].extend(others) on a defaultdict(list); the dict is
\* kept as a sequence of entries in key insertion order.
Extend(rbc, id, others) ==
    IF \E i \in 1..Len(rbc) : rbc[i].id = id
    THEN LET i == CHOOSE k \in 1..Len(rbc) : rbc[k].id = id
         IN [rbc EXCEPT ![i].colliders = @ \o others]
    ELSE Append(rbc, [id |-> id, colliders |-> others])

RECURSIVE RecordCollision(_, _, _)
RecordCollision(rbc, colliders, k) ==
    IF k > Len(colliders) THEN rbc
    ELSE RecordCollision(
            Extend(rbc, colliders[k], RemoveFirst(colliders, colliders[k])),
            colliders, k + 1)

\* Index of the first collider whose recorded position differs from the
\* collision's position, 0 when there is none.
FirstRevertible(o, c) ==
    LET cand == {k \in 1..Len(c.colliders) :
                    o[c.colliders[k]].position # c.position}
    IN IF cand = {} THEN 0
       ELSE CHOOSE k \in cand : \A j \in cand : k <= j

\* A plausible slip: the fetched collision is not looked up in unresolvable.
NextCollision_Unchecked(m, o, unresolvable) ==
    get_rb_collisions(m, o, NoLayer, NoPos, TRUE)

\* collision = get_rb_collisions(single=True), dropped when already recorded
\* as unresolvable.
NextCollision(m, o, unresolvable) ==
    LET c == get_rb_collisions(m, o, NoLayer, NoPos, TRUE)
    IN IF c # NoCollision /\ InSeq(unresolvable, c) THEN NoCollision ELSE c

\* The "while collision:" loop.  st carries the map, the collected
\* notifications, the unresolvable list, the collision in hand, and the
\* history of fetched collisions and reverts.
RECURSIVE ResolveLoop(_, _, _)
ResolveLoop(st, o, fuel) ==
    IF st.collision = NoCollision THEN st
    ELSE IF fuel = 0 THEN [st EXCEPT !.timedOut = TRUE]
    ELSE LET c == st.collision
             rbc == RecordCollision(st.rbc, c.colliders, 1)
             k == FirstRevertible(o, c)
             g == c.colliders[k]
             m1 == IF k = 0 THEN st.map
                   ELSE add_obj(remove_obj(st.map, c.layer, c.position, g),
                                c.layer, o[g].position, g)
             unres == IF k = 0 THEN Append(st.unresolvable, c)
                      ELSE st.unresolvable
         IN ResolveLoop(
              [map |-> m1, rbc |-> rbc, unresolvable |-> unres,
               collision |-> NextCollision(m1, o, unres),
               fetched |-> Append(st.fetched, c),
               reverts |-> IF k = 0 THEN st.reverts
                           ELSE Append(st.reverts, [obj |-> g, from |-> c]),
               timedOut |-> FALSE],
              o, fuel - 1)

\* A plausible slip: the position of a bucket is given to every entity of the
\* bucket's layer.
RECURSIVE Reconcile_WholeLayer(_, _, _)
Reconcile_WholeLayer(o, m, i) ==
    IF i > Len(m) THEN o
    ELSE LET b == m[i]
         IN Reconcile_WholeLayer(
                [g \in DOMAIN o |->
                    IF o[g].layer = b.layer /\ b.objs # <<>>
                    THEN [o[g] EXCEPT !.position = b.position]
                    ELSE o[g]],
                m, i + 1)

\* for layer, position, game_obj_list in self.collision_map:
\*     for game_obj in game_obj_list: game_obj.position = position
RECURSIVE Reconcile(_, _, _)
Reconcile(o, m, i) ==
    IF i > Len(m) THEN o
    ELSE LET b == m[i]
             inBucket == {b.objs[k] : k \in 1..Len(b.objs)}
         IN Reconcile([g \in DOMAIN o |->
                          IF g \in inBucket THEN [o[g] EXCEPT !.position = b.position]
                          ELSE o[g]],
                      m, i + 1)

\* A plausible slip: every collected entry is dispatched.
Dispatch_Unguarded(rbc, registry) == rbc

\* The dispatch loop: entries whose id is no longer registered are skipped.
Dispatch(rbc, registry) ==
    LET live(e) == e.id \in registry
    IN SelectSeq(rbc, live)

NoRun == [ran |-> FALSE, prePos |-> <<>>, preMap |-> <<>>, requests |-> <<>>,
          applied |-> <<>>, fetched |-> <<>>, reverts |-> <<>>,
          unresolvable |-> <<>>, notified |-> <<>>, timedOut |-> FALSE]

\* The early return on an empty queue.
EarlyReturn(o, m) ==
    [objs |-> o, map |-> m, requests |-> <<>>,
     last |-> [NoRun EXCEPT !.ran = TRUE, !.preMap = m,
                            !.prePos = [g \in DOMAIN o |-> o[g].position]]]

\* The body of __move_objects on a non-empty queue: apply the requests,
\* resolve, reconcile the position fields, dispatch the notifications.
Resolve(o, registry, m, reqs) ==
    LET applied == ApplyRequests(m, o, reqs)
        st0 == [map |-> applied, rbc |-> <<>>, unresolvable |-> <<>>,
                collision |-> get_rb_collisions(applied, o, NoLayer, NoPos, TRUE),
                fetched |-> <<>>, reverts |-> <<>>, timedOut |-> FALSE]
        st == ResolveLoop(st0, o, LoopFuel)
    IN [objs |-> Reconcile(o, st.map, 1), map |-> st.map, requests |-> <<>>,
        last |-> [ran |-> TRUE,
                  prePos |-> [g \in DOMAIN o |-> o[g].position],
                  preMap |-> m, requests |-> reqs, applied |-> applied,
                  fetched |-> st.fetched, reverts |-> st.reverts,
                  unresolvable |-> st.unresolvable,
                  notified |-> Dispatch(st.rbc, registry),
                  timedOut |-> st.timedOut]]

\* A plausible slip: the requests are iterated and the queue is not emptied.
move_objects_KeepQueue(o, registry, m, reqs) ==
    IF reqs = <<>> THEN EarlyReturn(o, m)
    ELSE [Resolve(o, registry, m, reqs) EXCEPT !.requests = reqs]

\* Result of one call of __move_objects on (o, registry, m, reqs).
move_objects(o, registry, m, reqs) ==
    IF reqs = <<>> THEN EarlyReturn(o, m)
    ELSE Resolve(o, registry, m, reqs)

\* ------------------------------------------------------ __draw_game_objects
\* The map is rebuilt from the registry: colliders only, in registry order
\* (ids are handed out in increasing order and the dict keeps insertion order).
RECURSIVE Rebuild(_, _, _, _)
Rebuild(m, o, registry, id) ==
    IF id \notin DOMAIN o THEN m
    ELSE Rebuild(IF id \in registry /\ o[id].collider
                 THEN add_obj(m, o[id].layer, o[id].position, id)
                 ELSE m,
                 o, registry, id + 1)

\* __ready_for_next_frame: last_frame_time is set to None in __init__ and is
\* assigned nowhere else, so the first test always succeeds.
last_frame_time == NoTime
get_time_delta(then) == now - then
ready_for_next_frame ==
    IF last_frame_time = NoTime THEN TRUE
    ELSE get_time_delta(last_frame_time) > frame_delay

\* Record of a call of __draw_frame: whether it drew, the value of now in that
\* iteration, and the value of now at the draw before it (NoTime when none).
NoDraw == [ran |-> FALSE, executed |-> FALSE, at |-> NoTime, previous |-> NoTime,
           latest |-> NoTime]


\* ---------------------------------------------------------------- pathfind
NoQuery == [start |-> NoPos, target |-> NoPos]
NoResult == [outcome |-> "none", path |-> <<>>]

get_neighbors(position, max_y, max_x) ==
    LET y == position[1]
        x == position[2]
        inside(n) == ~(n[1] < 0 \/ n[1] > max_y) /\ ~(n[2] < 0 \/ n[2] > max_x)
    IN SelectSeq(<< <<y + 1, x>>, <<y - 1, x>>, <<y, x + 1>>, <<y, x - 1>> >>, inside)

\* Python's order on tuples, which is the order PriorityQueue keeps.
TupleLess(a, b) == a[1] < b[1] \/ (a[1] = b[1] /\ a[2] < b[2])

\* PriorityQueue.put(item, block): the second argument of put is the blocking
\* flag, not a priority, and the queue is unbounded, so the item is just added.
FrontierPut(frontier, item, block) == Append(frontier, item)

\* PriorityQueue.get(): the smallest item.
FrontierMin(frontier) ==
    frontier[CHOOSE i \in 1..Len(frontier) :
                \A j \in 1..Len(frontier) : ~TupleLess(frontier[j], frontier[i])]

Manhattan(a, b) ==
    (IF a[1] >= b[1] THEN a[1] - b[1] ELSE b[1] - a[1])
    + (IF a[2] >= b[2] THEN a[2] - b[2] ELSE b[2] - a[2])

Put(f, k, v) == [p \in DOMAIN f \cup {k} |-> IF p = k THEN v ELSE f[p]]

\* The for loop over the neighbours of current.
RECURSIVE Relax(_, _, _, _, _, _)
Relax(st, current, neighbors, i, start, target) ==
    IF i > Len(neighbors) THEN st
    ELSE LET neighbor == neighbors[i]
             new_cost == st.cost_so_far[current] + 1
             priority == new_cost + Manhattan(target, start)
         IN IF neighbor \notin DOMAIN st.cost_so_far
               \/ new_cost < st.cost_so_far[neighbor]
            THEN Relax([frontier |-> FrontierPut(st.frontier, neighbor, priority),
                        came_from |-> Put(st.came_from, neighbor, current),
                        cost_so_far |-> Put(st.cost_so_far, neighbor, new_cost),
                        timedOut |-> FALSE],
                       current, neighbors, i + 1, start, target)
            ELSE Relax(st, current, neighbors, i + 1, start, target)

\* while not frontier.empty()
RECURSIVE Search(_, _, _, _, _, _)
Search(st, start, target, max_y, max_x, fuel) ==
    IF st.frontier = <<>> THEN st
    ELSE IF fuel = 0 THEN [st EXCEPT !.timedOut = TRUE]
    ELSE LET current == FrontierMin(st.frontier)
             rest == [st EXCEPT !.frontier = RemoveFirst(@, current)]
         IN IF current = target THEN rest
            ELSE Search(Relax(rest, current, get_neighbors(current, max_y, max_x),
                              1, start, target),
                        start, target, max_y, max_x, fuel - 1)

\* A plausible slip: the walk back also collects the start position.
RECURSIVE Trace_WithStart(_, _, _, _, _)
Trace_WithStart(came_from, current, start, path, fuel) ==
    IF current = start THEN [outcome |-> "returned", path |-> <<current>> \o path]
    ELSE IF fuel = 0 THEN [outcome |-> "timeout", path |-> <<>>]
    ELSE IF current \notin DOMAIN came_from THEN [outcome |-> "KeyError", path |-> <<>>]
    ELSE Trace_WithStart(came_from, came_from[current], start, <<current>> \o path,
                         fuel - 1)

\* The walk back along came_from; reading a position that was never traced
\* raises KeyError.
RECURSIVE Trace(_, _, _, _, _)
Trace(came_from, current, start, path, fuel) ==
    IF current = start THEN [outcome |-> "returned", path |-> path]
    ELSE IF fuel = 0 THEN [outcome |-> "timeout", path |-> <<>>]
    ELSE IF current \notin DOMAIN came_from THEN [outcome |-> "KeyError", path |-> <<>>]
    ELSE Trace(came_from, came_from[current], start, <<current>> \o path, fuel - 1)

pathfind(start, target, max_y, max_x) ==
    LET st0 == [frontier |-> FrontierPut(<<>>, start, 0),
                came_from |-> (start :> NoPos),
                cost_so_far |-> (start :> 0),
                timedOut |-> FALSE]
        st == Search(st0, start, target, max_y, max_x, PathFuel)
    IN IF st.timedOut THEN [outcome |-> "timeout", path |-> <<>>]
       ELSE Trace(st.came_from, target, start, <<>>, PathFuel)

InGrid(p) == p[1] \in 0..MaxRow /\ p[2] \in 0..MaxCol
GridCells == (0..MaxRow) \X (0..MaxCol)
Targets == ((0 - 1)..(MaxRow + 1)) \X ((0 - 1)..(MaxCol + 1))

\* An entity standing at start asks for a path to target.
CallPathfind(start, target) ==
    /\ path_pc = "idle"
    /\ path_query' = [start |-> start, target |-> target]
    /\ path_pc' = "called"
    /\ UNCHANGED <<path_result, rb_call, gvars>>

\* pathfind runs to its return or to its exception.
Pathfind ==
    /\ path_pc = "called"
    /\ path_result' = pathfind(path_query.start, path_query.target, MaxRow, MaxCol)
    /\ path_pc' = "done"
    /\ UNCHANGED <<path_query, rb_call, gvars>>

\* ------------------------------------------------------------------ actions
\* The calls granted to a run: more when the classes all share one profile.
OpsBudget ==
    IF resources = {PlainRigidbody} /\ terminal = Quiet THEN MaxOps
    ELSE MaxProfileOps

\* The head of __loop: now is read from the clock and __handle_input reads a
\* key.  "q" enters __stop_game, which sets game_stopped and starts polling;
\* no object has a key_map, so every other key is handled by nobody.
LoopStart(key, dt) ==
    /\ UNCHANGED pvars
    /\ phase = "input"
    /\ ~game_stopped
    /\ tick < MaxTicks
    /\ key \in terminal.keys
    /\ dt \in terminal.delays
    /\ now' = now + dt
    /\ input' = [key |-> key, by |-> "__handle_input"]
    /\ IF key = "q"
       THEN game_stopped' = TRUE /\ phase' = "input"
       ELSE game_stopped' = FALSE /\ phase' = "update"
    /\ UNCHANGED <<objs, active_objects, next_game_obj_id, collision_map,
                   move_requests, tick, resources, ops, last, terminal, drawn>>

\* A plausible slip: any key ends the pause.
StopGamePoll_AnyKey(key) ==
    /\ UNCHANGED pvars
    /\ phase = "input"
    /\ game_stopped
    /\ key \in terminal.keys
    /\ input' = [key |-> key, by |-> "__stop_game"]
    /\ IF key # NoKey /\ key # "q"
       THEN game_stopped' = FALSE /\ phase' = "update"
       ELSE IF key = "q"
       THEN game_stopped' = TRUE /\ phase' = "exited"
       ELSE game_stopped' = TRUE /\ phase' = "input"
    /\ UNCHANGED <<objs, active_objects, next_game_obj_id, collision_map,
                   move_requests, tick, resources, ops, last, now, terminal, drawn>>

\* One turn of the polling loop of __stop_game: "r" clears game_stopped, so
\* __stop_game and __handle_input return and the iteration goes on with the
\* update; "q" calls sys.exit(); any other reading polls again.
StopGamePoll(key) ==
    /\ UNCHANGED pvars
    /\ phase = "input"
    /\ game_stopped
    /\ key \in terminal.keys
    /\ input' = [key |-> key, by |-> "__stop_game"]
    /\ IF key = "r"
       THEN game_stopped' = FALSE /\ phase' = "update"
       ELSE IF key = "q"
       THEN game_stopped' = TRUE /\ phase' = "exited"
       ELSE game_stopped' = TRUE /\ phase' = "input"
    /\ UNCHANGED <<objs, active_objects, next_game_obj_id, collision_map,
                   move_requests, tick, resources, ops, last, now, terminal, drawn>>

\* spawn_obj with __new_game_object: the new object is registered and added
\* to the map under its layer and position, whatever its profile or position.
Spawn(profile, position) ==
    /\ UNCHANGED pvars
    /\ phase = "update"
    /\ profile \in resources
    /\ tick < MaxTicks
    /\ ops < OpsBudget
    /\ ops' = ops + 1
    /\ LET id == next_game_obj_id
           g == [position |-> position, collider |-> profile.collider,
                 rigidbody |-> profile.rigidbody, layer |-> profile.layer]
       IN /\ objs' = [k \in 0..id |-> IF k = id THEN g ELSE objs[k]]
          /\ active_objects' = active_objects \cup {id}
          /\ next_game_obj_id' = id + 1
          /\ collision_map' = add_obj(collision_map, g.layer, g.position, id)
    /\ UNCHANGED <<move_requests, phase, tick, resources, last,
                   now, game_stopped, terminal, input, drawn>>

\* TermGame.move, reached from GameObject.move_abs.
Move(g, position) ==
    /\ UNCHANGED pvars
    /\ phase = "update"
    /\ g \in active_objects
    /\ tick < MaxTicks
    /\ ops < OpsBudget
    /\ ops' = ops + 1
    /\ move_requests' = Append(move_requests, [obj |-> g, position |-> position])
    /\ UNCHANGED <<objs, active_objects, next_game_obj_id, collision_map,
                   phase, tick, resources, last,
                   now, game_stopped, terminal, input, drawn>>

\* destroy_object.
Destroy(g) ==
    /\ UNCHANGED pvars
    /\ phase = "update"
    /\ g \in active_objects
    /\ tick < MaxTicks
    /\ ops < OpsBudget
    /\ ops' = ops + 1
    /\ active_objects' = active_objects \ {g}
    /\ collision_map' = remove_obj(collision_map, objs[g].layer, objs[g].position, g)
    /\ UNCHANGED <<objs, next_game_obj_id, move_requests, phase, tick,
                   resources, last, now, game_stopped, terminal, input, drawn>>

\* An object's update calls collision_map.get_rb_collisions.
GetRbCollisions(layer, position, single) ==
    /\ phase = "update"
    /\ tick < MaxTicks
    /\ ~rb_call.made
    /\ rb_call' = [made |-> TRUE, layer |-> layer, position |-> position,
                   single |-> single, map |-> collision_map,
                   result |-> get_rb_collisions(collision_map, objs, layer,
                                                position, single)]
    /\ UNCHANGED <<path_query, path_result, path_pc, gvars>>

\* __move_objects, called by __loop once the update phase has returned.
MoveObjects ==
    /\ UNCHANGED pvars
    /\ phase = "update"
    /\ tick < MaxTicks
    /\ LET r == move_objects(objs, active_objects, collision_map, move_requests)
       IN /\ objs' = r.objs
          /\ collision_map' = r.map
          /\ move_requests' = r.requests
          /\ last' = r.last
    /\ phase' = "draw"
    /\ tick' = tick + 1
    /\ UNCHANGED <<active_objects, next_game_obj_id, resources, ops,
                   now, game_stopped, terminal, input, drawn>>

\* __draw_frame: when the frame is due the map is rebuilt by
\* __draw_game_objects; the loop then starts its next iteration.
DrawFrame ==
    /\ UNCHANGED pvars
    /\ phase = "draw"
    /\ collision_map' = IF ready_for_next_frame
                        THEN Rebuild(<<>>, objs, active_objects, 0)
                        ELSE collision_map
    /\ drawn' = [ran |-> TRUE, executed |-> ready_for_next_frame, at |-> now,
                  previous |-> drawn.latest,
                  latest |-> IF ready_for_next_frame THEN now ELSE drawn.latest]
    /\ phase' = "input"
    /\ last' = NoRun
    /\ UNCHANGED <<objs, active_objects, next_game_obj_id, move_requests,
                   tick, resources, ops, now, game_stopped, terminal, input>>

\* The state after __init__, before any object exists.
Start(classes, term) ==
    /\ objs = <<>>
    /\ active_objects = {}
    /\ next_game_obj_id = 0
    /\ collision_map = <<>>
    /\ move_requests = <<>>
    /\ phase = "input"
    /\ tick = 0
    /\ resources = classes
    /\ now = 0
    /\ game_stopped = FALSE
    /\ terminal = term
    /\ input = [key |-> NoKey, by |-> "__handle_input"]
    /\ drawn = NoDraw
    /\ ops = 0
    /\ last = NoRun
    /\ path_query = NoQuery
    /\ path_result = NoResult
    /\ path_pc = "idle"
    /\ rb_call = NoCall

\* Every class of the game is a rigidbody collider on layer 0.
Init == Start({PlainRigidbody}, Quiet)

\* The game has a class of every profile.
InitProfiles == Start(Profiles, Quiet)

\* The classes are colliders: rigidbodies on two layers and one that is none.
InitQuery ==
    Start({PlainRigidbody, Collision(TRUE, TRUE, 1), Collision(TRUE, FALSE, 0)},
          Quiet)

\* Keys arrive and the clock is uneven.
InitLoop == Start({PlainRigidbody}, Busy)

Next ==
    \/ \E key \in Busy.keys, dt \in Busy.delays : LoopStart(key, dt)
    \/ \E profile \in Profiles, position \in SpawnPositions : Spawn(profile, position)
    \/ \E g \in active_objects, position \in Cells : Move(g, position)
    \/ \E g \in active_objects : Destroy(g)
    \/ MoveObjects
    \/ DrawFrame

Spec == Init /\ [][Next]_vars

SpecProfiles == InitProfiles /\ [][Next]_vars

NextLoop ==
    \/ Next
    \/ \E key \in Busy.keys : StopGamePoll(key)

SpecLoop == InitLoop /\ [][NextLoop]_vars

\* Objects are spawned and one of them asks the map for its collisions.
NextQuery ==
    \/ \E key \in Quiet.keys, dt \in Quiet.delays : LoopStart(key, dt)
    \/ \E profile \in Profiles, position \in SpawnPositions : Spawn(profile, position)
    \/ \E layer \in LayerArgs, position \in PositionArgs, single \in BOOLEAN :
          GetRbCollisions(layer, position, single)

SpecQuery == InitQuery /\ [][NextQuery]_vars

NextPath ==
    \/ \E start \in GridCells, target \in Targets : CallPathfind(start, target)
    \/ Pathfind

SpecPath == Init /\ [][NextPath]_vars


\* ------------------------------------------------------------ vocabulary
\* The state right after a move-resolution phase; last describes that phase.
AfterMove == phase = "draw"

Members(s) == {s[i] : i \in 1..Len(s)}

BucketsOf(g) == {i \in 1..Len(collision_map) : InSeq(collision_map[i].objs, g)}

\* Registered entities that are rigidbody colliders.
Rigid(g) == g \in active_objects /\ objs[g].collider /\ objs[g].rigidbody

RequestsOf(g) == {i \in 1..Len(last.requests) : last.requests[i].obj = g}

NotifiedIds == {last.notified[i].id : i \in 1..Len(last.notified)}

NotifiedOf(g, h) ==
    \E i \in 1..Len(last.notified) :
        last.notified[i].id = g /\ InSeq(last.notified[i].colliders, h)

FetchedMembers == UNION {Members(last.fetched[i].colliders) : i \in 1..Len(last.fetched)}

\* Occurrences in map m of an entity in a bucket that is not its recorded
\* position: each revert of the resolution loop removes one of them.
Misplaced(m, o) ==
    Cardinality(UNION {{<<i, k>> : k \in {k \in 1..Len(m[i].objs) :
                                            o[m[i].objs[k]].position # m[i].position}} :
                       i \in 1..Len(m)})

\* ------------------------------------------------------------------ claims
\* C1: after every move-resolution phase every registered collider with a
\* position is in exactly one bucket of the map, and that bucket is the one of
\* its recorded position.
C1_IndexPositionConsistency ==
    AfterMove =>
        \A g \in active_objects :
            (objs[g].collider /\ objs[g].position # NoPos) =>
                /\ Cardinality(BucketsOf(g)) = 1
                /\ \A i \in BucketsOf(g) :
                      /\ collision_map[i].position = objs[g].position
                      /\ collision_map[i].layer = objs[g].layer

\* C2: after a move-resolution phase with a non-empty request queue, every
\* bucket holding two or more rigidbody entities holds only entities whose
\* pre-tick position is that bucket's position.
C2_NoResolvableOverlapSurvives ==
    (AfterMove /\ last.requests # <<>>) =>
        \A i \in 1..Len(collision_map) :
            LET rb == {g \in Members(collision_map[i].objs) : Rigid(g)}
            IN (collision_map[i].position \in Cells /\ Cardinality(rb) >= 2) =>
                 \A g \in rb : last.prePos[g] = collision_map[i].position

\* C3: A rests at cell P with no request, B is elsewhere and its one request
\* targets P, both rigidbodies of one layer: afterwards A is at P, B is at its
\* pre-tick position, and each is notified with the other among its peers.
C3_MoveOntoOccupiedCell ==
    AfterMove =>
        \A a \in active_objects, b \in active_objects :
            LET p == last.prePos[a]
            IN (/\ a # b /\ Rigid(a) /\ Rigid(b)
                /\ objs[a].layer = objs[b].layer
                /\ p \in Cells /\ last.prePos[b] # p
                /\ RequestsOf(a) = {}
                /\ Cardinality(RequestsOf(b)) = 1
                /\ \A i \in RequestsOf(b) : last.requests[i].position = p)
               => /\ (objs[a].position = p) # (objs[b].position = p)
                  /\ objs[a].position = p => objs[b].position = last.prePos[b]
                  /\ objs[b].position = p => objs[a].position = last.prePos[a]
                  /\ NotifiedOf(a, b) /\ NotifiedOf(b, a)

\* C4: the resolution loop stops: it never uses up its fuel, it runs at most
\* once per misplaced occurrence plus once, at most one collision is recorded
\* as unresolvable, and a recorded one is fetched exactly once, last.
C4_ResolutionTerminates ==
    AfterMove =>
        /\ ~last.timedOut
        /\ Len(last.fetched) <=
              Misplaced(last.applied, [g \in DOMAIN last.prePos |->
                                         [position |-> last.prePos[g]]]) + 1
        /\ Len(last.unresolvable) <= 1
        /\ \A u \in Members(last.unresolvable) :
              /\ Count(last.fetched, u) = 1
              /\ last.fetched[Len(last.fetched)] = u

C4_Witness ==
    /\ AfterMove
    /\ last.unresolvable # <<>>
    /\ last.reverts # <<>>

\* C5: two rigidbody entities left in one bucket after move-resolution have
\* each been notified in that tick with the other among the peers.
C5_LeftoverPairsNotified ==
    AfterMove =>
        \A i \in 1..Len(collision_map) :
            \A g \in Members(collision_map[i].objs), h \in Members(collision_map[i].objs) :
                (collision_map[i].position \in Cells /\ g # h /\ Rigid(g) /\ Rigid(h))
                    => NotifiedOf(g, h)

\* C6: the entities notified in a tick are exactly the members of the fetched
\* rigidbody collisions that are still registered, each notified once.
C6_NotifiedSet ==
    AfterMove =>
        /\ NotifiedIds = FetchedMembers \cap active_objects
        /\ \A i \in 1..Len(last.notified), j \in 1..Len(last.notified) :
              last.notified[i].id = last.notified[j].id => i = j
        /\ \A i \in 1..Len(last.reverts) :
              last.reverts[i].obj \in active_objects =>
                  last.reverts[i].obj \in NotifiedIds

C6_Witness ==
    /\ AfterMove
    /\ \E g \in FetchedMembers : g \notin active_objects
    /\ \E i \in 1..Len(last.reverts) : last.reverts[i].obj \in NotifiedIds

\* C7: rigidbodies of different layers never meet in a collision: every
\* fetched collision holds entities of its own layer only, so no entity is
\* reverted or notified because of an entity of another layer.
C7_LayersDoNotCollide ==
    AfterMove =>
        /\ \A i \in 1..Len(last.fetched) :
              \A g \in Members(last.fetched[i].colliders) :
                  objs[g].layer = last.fetched[i].layer
        /\ \A i \in 1..Len(last.notified) :
              \A h \in Members(last.notified[i].colliders) :
                  objs[h].layer = objs[last.notified[i].id].layer
        /\ \A i \in 1..Len(last.reverts) :
              \A h \in Members(last.reverts[i].from.colliders) :
                  objs[h].layer = objs[last.reverts[i].obj].layer

\* Two rigidbodies of different layers share a cell that one of them entered
\* this tick; neither is notified.
C7_Witness ==
    /\ AfterMove
    /\ \E g \in active_objects, h \in active_objects :
          /\ Rigid(g) /\ Rigid(h)
          /\ objs[g].layer # objs[h].layer
          /\ objs[g].position \in Cells
          /\ objs[g].position = objs[h].position
          /\ last.prePos[g] # objs[g].position
          /\ Cardinality(BucketsOf(g)) = 1 /\ BucketsOf(h) # {}
          /\ g \notin NotifiedIds /\ h \notin NotifiedIds

\* C8: move-resolution on an empty queue changes no position and no bucket,
\* and a second move-resolution right after any move-resolution changes
\* nothing either.
C8_Idempotent ==
    AfterMove =>
        /\ last.requests = <<>> =>
              /\ collision_map = last.preMap
              /\ \A g \in DOMAIN objs : objs[g].position = last.prePos[g]
        /\ LET again == move_objects(objs, active_objects, collision_map, move_requests)
           IN again.objs = objs /\ again.map = collision_map

\* An empty-queue phase over a map that holds a rigidbody collision.
C8_Witness ==
    /\ AfterMove
    /\ last.requests = <<>>
    /\ get_rb_collisions(collision_map, objs, NoLayer, NoPos, TRUE) # NoCollision


\* C9: for a target inside the grid the returned path is as long as the
\* Manhattan distance between start and target.
C9_PathLengthIsManhattan ==
    (path_pc = "done" /\ InGrid(path_query.target)) =>
        /\ path_result.outcome = "returned"
        /\ Len(path_result.path) = Manhattan(path_query.start, path_query.target)

\* C10: for a target the search never reaches, pathfind ends with an explicit
\* no-path result (an empty path), not with a lookup failure or without end.
C10_UnreachableGivesNoPath ==
    (path_pc = "done" /\ ~InGrid(path_query.target)) =>
        /\ path_result.outcome = "returned"
        /\ path_result.path = <<>>

\* C11: for a target inside the grid the returned path leaves out the start,
\* ends with the target (and is empty when the target is the start), begins
\* next to the start, moves one grid unit in one axis at every step, and stays
\* inside the grid.
C11_PathShape ==
    (path_pc = "done" /\ InGrid(path_query.target)) =>
        LET path == path_result.path
            S == path_query.start
            T == path_query.target
        IN /\ path_result.outcome = "returned"
           /\ S \notin Members(path)
           /\ T = S => path = <<>>
           /\ T # S => /\ path # <<>>
                       /\ path[Len(path)] = T
                       /\ Manhattan(S, path[1]) = 1
           /\ \A i \in 1..(Len(path) - 1) : Manhattan(path[i], path[i + 1]) = 1
           /\ \A i \in 1..Len(path) : InGrid(path[i])

\* A returned path of three or more steps that turns a corner.
C11_Witness ==
    /\ path_pc = "done"
    /\ InGrid(path_query.target)
    /\ path_result.outcome = "returned"
    /\ Len(path_result.path) >= 3
    /\ path_query.start[1] # path_query.target[1]
    /\ path_query.start[2] # path_query.target[2]

\* C12: a call of __draw_frame draws exactly when no draw has happened yet
\* or more than frame_delay has passed since the last draw that happened;
\* otherwise the draw is skipped.
C12_DrawThrottled ==
    drawn.ran =>
        (drawn.executed <=>
            (drawn.previous = NoTime \/ drawn.at - drawn.previous > frame_delay))

\* C13: once the pause key is read the loop is stopped; while it is stopped
\* no update, move-resolution or draw happens and the registry, the request
\* queue and the map stay as they are; only "r" resumes, straight into the
\* update of the interrupted iteration, "q" ends the process, and any other
\* reading leaves the loop stopped.
C13_PauseHolds ==
    [][/\ (phase = "input" /\ ~game_stopped /\ input'.key = "q") => game_stopped'
       /\ phase # "exited"
       /\ game_stopped =>
            /\ UNCHANGED <<objs, active_objects, next_game_obj_id, collision_map,
                           move_requests, tick, ops, last, drawn, now>>
            /\ input'.by = "__stop_game"
            /\ input'.key = "r" => (~game_stopped' /\ phase' = "update")
            /\ input'.key = "q" => phase' = "exited"
            /\ input'.key \notin {"r", "q"} => (game_stopped' /\ phase' = "input")
      ]_vars

\* A pause over a populated registry and map, ended by the resume key.
C13_Witness ==
    /\ input = [key |-> "r", by |-> "__stop_game"]
    /\ ~game_stopped
    /\ phase = "update"
    /\ tick >= 1
    /\ active_objects # {}
    /\ \E i \in 1..Len(collision_map) : collision_map[i].objs # <<>>

\* C14: no bucket of the map is keyed by an unset position and no bucket
\* holds an entity whose position is unset.
C14_NoUnsetPositionInIndex ==
    \A i \in 1..Len(collision_map) :
        /\ collision_map[i].position # NoPos
        /\ \A g \in Members(collision_map[i].objs) : objs[g].position # NoPos

\* Occurrences of entity g in bucket (l, p) of map m.
CountIn(m, l, p, g) ==
    IF HasBucket(m, l, p) THEN Count(m[BucketIdx(m, l, p)].objs, g) ELSE 0

\* C15: a relocation request for an entity that is no collider is a no-op:
\* applying the requests of a tick adds no entry for it to any bucket.
C15_NonColliderRequestRejected ==
    AfterMove =>
        \A k \in 1..Len(last.requests) :
            LET g == last.requests[k].obj
            IN ~objs[g].collider =>
                 \A i \in 1..Len(last.applied) :
                     LET b == last.applied[i]
                     IN Count(b.objs, g) <= CountIn(last.preMap, b.layer, b.position, g)

\* The rigidbody subsets of size two or more of the buckets of map m that
\* match the given layer and position (NoLayer and NoPos: not given).
RbConflicts(m, layer, position) ==
    LET rigid(g) == objs[g].rigidbody
        asConflict(b) == [layer |-> b.layer, position |-> b.position,
                          colliders |-> SelectSeq(b.objs, rigid)]
        wanted(b) == /\ Len(SelectSeq(b.objs, rigid)) >= 2
                     /\ layer # NoLayer => b.layer = layer
                     /\ position # NoPos => b.position = position
        hits == SelectSeq(m, wanted)
    IN [i \in 1..Len(hits) |-> asConflict(hits[i])]

\* C16: get_rb_collisions returns the rigidbody conflicts of the buckets that
\* match the given layer and position: all of them without single; with
\* single one of them, and none exactly when there is none.
C16_RbCollisionsMatchFilter ==
    rb_call.made =>
        LET ref == RbConflicts(rb_call.map, rb_call.layer, rb_call.position)
            returned == IF rb_call.result = NoCollision THEN <<>>
                        ELSE <<rb_call.result>>
        IN IF rb_call.single
           THEN /\ ref = <<>> => returned = <<>>
                /\ ref # <<>> => returned # <<>> /\ InSeq(ref, rb_call.result)
           ELSE returned = ref

\* C17: an entity that is no collider takes no part in rigidbody resolution:
\* it is in no fetched collision, is not reverted, and neither receives a
\* notification nor appears among the peers of one.
C17_NonCollidersStayOut ==
    AfterMove =>
        /\ \A g \in FetchedMembers : objs[g].collider
        /\ \A i \in 1..Len(last.reverts) :
              /\ objs[last.reverts[i].obj].collider
              /\ \A h \in Members(last.reverts[i].from.colliders) : objs[h].collider
        /\ \A i \in 1..Len(last.notified) :
              /\ objs[last.notified[i].id].collider
              /\ \A h \in Members(last.notified[i].colliders) : objs[h].collider

\* C18: an entity that destroy_object removed from the registry is in no
\* bucket of the map, in every later state.
C18_DestroyedStaysOut ==
    \A g \in DOMAIN objs : g \notin active_objects => BucketsOf(g) = {}

\* What bucket (l, p) holds once the requests k, k+1, ... of the phase have
\* been applied, the one queued last first: each request takes one entry of
\* its entity out of the bucket of the entity's pre-tick position and appends
\* one to the requested bucket.
RECURSIVE BucketAfter(_, _, _)
BucketAfter(l, p, k) ==
    IF k > Len(last.requests)
    THEN IF HasBucket(last.preMap, l, p)
         THEN last.preMap[BucketIdx(last.preMap, l, p)].objs ELSE <<>>
    ELSE LET r == last.requests[k]
             g == r.obj
             before == BucketAfter(l, p, k + 1)
             left == IF l = objs[g].layer /\ p = last.prePos[g]
                     THEN RemoveFirst(before, g) ELSE before
         IN IF l = objs[g].layer /\ p = r.position THEN Append(left, g) ELSE left

\* C19: every queued request is applied once, the one queued last first, from
\* the bucket of the entity's pre-tick position into the requested bucket,
\* and the queue is empty when the phase ends.
C19_RequestsAppliedOnceLIFO ==
    AfterMove =>
        /\ move_requests = <<>>
        /\ \A l \in {0, 1}, p \in SpawnPositions :
              LET m == IF last.requests = <<>> THEN last.preMap ELSE last.applied
              IN BucketAfter(l, p, 1) =
                     IF HasBucket(m, l, p) THEN m[BucketIdx(m, l, p)].objs ELSE <<>>
        /\ \A i \in 1..Len(last.applied) :
              last.applied[i].layer \in {0, 1} /\ last.applied[i].position \in SpawnPositions

\* One entity queued two requests with different targets, so the order of
\* application shows in the map.
C19_Witness ==
    /\ AfterMove
    /\ \E i \in 1..Len(last.requests), j \in 1..Len(last.requests) :
          /\ i < j
          /\ last.requests[i].obj = last.requests[j].obj
          /\ last.requests[i].position # last.requests[j].position
          /\ last.prePos[last.requests[i].obj] \in Cells

\* C20: the peers handed to an entity's notification are exactly the other
\* members of the fetched collisions it was in, never the entity itself.
C20_PeersAreOthers ==
    AfterMove =>
        \A i \in 1..Len(last.notified) :
            LET e == last.notified[i]
                shared == UNION {Members(last.fetched[k].colliders) :
                                   k \in {k \in 1..Len(last.fetched) :
                                            InSeq(last.fetched[k].colliders, e.id)}}
            IN Members(e.colliders) = shared \ {e.id}

\* C21: a move-resolution phase leaves every registered entity at its
\* pre-tick position or at the target of one of its own requests of the tick,
\* so an entity without a request keeps its position, and the phase neither
\* adds an entity to the registry nor removes one.
C21_PositionsFromOwnRequests ==
    [][(phase = "update" /\ phase' = "draw") =>
          /\ active_objects' = active_objects
          /\ DOMAIN objs' = DOMAIN objs
          /\ \A g \in active_objects :
                \/ objs'[g].position = objs[g].position
                \/ \E k \in 1..Len(move_requests) :
                      /\ move_requests[k].obj = g
                      /\ move_requests[k].position = objs'[g].position
      ]_vars

\* A rigidbody without a request rests on a cell that another rigidbody asked
\* for; the mover was reverted and the resting one is where it was.
C21_Witness ==
    /\ AfterMove
    /\ \E a \in active_objects, b \in active_objects :
          /\ a # b /\ Rigid(a) /\ Rigid(b)
          /\ RequestsOf(a) = {}
          /\ last.prePos[a] \in Cells
          /\ objs[a].position = last.prePos[a]
          /\ \E k \in RequestsOf(b) : last.requests[k].position = last.prePos[a]
          /\ \E k \in 1..Len(last.reverts) : last.reverts[k].obj = b

====
